---- MODULE Spec2Model ----
(***************************************************************************)
(* Model of the Shopify store insights fetcher:                            *)
(*   main.py                      analyze_shopify_store (the /analyze-store *)
(*                                handler: freshness gate + upsert)         *)
(*   models.py                    ShopifyStore (the stored row)             *)
(*   services/shopify_scraper.py  ShopifyScraperService.analyze_store (the  *)
(*                                fan-out over 7 scraping units + merge)    *)
(*   services/llm_processor.py    LLMProcessorService.enhance_insights      *)
(* and of three of the scraping units taken alone: _scrape_social_handles,  *)
(* _scrape_important_links and _scrape_policies.                            *)
(*                                                                         *)
(* Text is modelled by tokens (TLA+ strings); "None" stands for Python's   *)
(* None.  A list of products is modelled by its length.  A JSON document   *)
(* is a tagged value [t |-> type, v |-> value].                            *)
(***************************************************************************)
EXTENDS Integers, Sequences, FiniteSets, TLC

VARIABLES
    \* ---- the request handler and the database (main.py, models.py)
    now,        \* the clock, in hours
    db,         \* the shopify_stores table: a set of rows
    nextId,     \* the table's auto-increment counter
    req,        \* per request slot: where the handler is and what it holds
    \* ---- one call of ShopifyScraperService.analyze_store (shopify_scraper.py)
    cSite,      \* what the target site answers during this call
    cLlm,       \* the llm_service argument and what the model answers
    cResults,   \* per unit: pending, or the unit's return value
    cFirst,     \* the unit that finished first ("none" before any has)
    cOut,       \* the outcome of the call, once it has returned
    \* ---- one call of LLMProcessorService.enhance_insights (llm_processor.py)
    hIn,        \* the record passed in
    hLlm,       \* the service's enabled flag and what the model answers
    hOut,       \* the outcome of the call, once it has returned
    \* ---- one call of a page-scanning unit of shopify_scraper.py
    fIn,        \* what the fetched page holds (links, or policy responses)
    fOut        \* what the unit returns, once it has

vars == <<now, db, nextId, req, cSite, cLlm, cResults, cFirst, cOut,
          hIn, hLlm, hOut, fIn, fOut>>

storeVars == <<now, db, nextId, req>>
coordVars == <<cSite, cLlm, cResults, cFirst, cOut>>
hookVars  == <<hIn, hLlm, hOut>>
unitVars  == <<fIn, fOut>>

-----------------------------------------------------------------------------
(* Python values *)

None == "None"

\* Python truthiness of an Optional[str]
Truthy(s) == s /= None /\ s /= ""

\* str.strip() on the text tokens of the model
Strip(s) ==
    CASE s = "  "       -> ""
      [] s = " better " -> "better"
      [] OTHER          -> s

JList(s) == [t |-> "list", v |-> s]
JStr(s)  == [t |-> "str",  v |-> <<s>>]
JDict(d) == [t |-> "dict", v |-> d]
JInvalid == [t |-> "invalid", v |-> <<>>]

EmptyDict == [k \in {} |-> None]

\* dict.get(key, default)
DictGet(d, k, default) == IF k \in DOMAIN d THEN d[k] ELSE default

Min(a, b) == IF a <= b THEN a ELSE b

-----------------------------------------------------------------------------
(* pydantic_models.py: BrandInsights and its parts *)

Units == {"products", "homepage", "policies", "contact", "social", "faqs", "links"}

\* ContactInfo()
DefaultContact == [emails |-> {}, phones |-> {}, address |-> None]

\* BrandInsights(store_url=store_url): every other field at its declared default
NewInsights(store_url) ==
    [store_url            |-> store_url,
     store_name           |-> None,
     product_catalog      |-> 0,
     hero_products        |-> 0,
     privacy_policy       |-> None,
     return_refund_policy |-> None,
     faqs                 |-> <<>>,
     social_handles       |-> <<>>,
     contact_info         |-> DefaultContact,
     brand_context        |-> None,
     important_links      |-> <<>>,
     total_products       |-> 0,
     currencies_accepted  |-> JList(<<>>),
     payment_methods      |-> JList(<<>>),
     shipping_info        |-> None]

\* The fields each unit's result is merged into (analyze_store, lines 46-69)
Owned(u) ==
    CASE u = "products" -> {"product_catalog", "total_products"}
      [] u = "homepage" -> {"hero_products", "store_name", "brand_context"}
      [] u = "policies" -> {"privacy_policy", "return_refund_policy"}
      [] u = "contact"  -> {"contact_info"}
      [] u = "social"   -> {"social_handles"}
      [] u = "faqs"     -> {"faqs"}
      [] u = "links"    -> {"important_links"}

\* Validation of a BrandInsights document by parse_raw: the two fields that hold
\* the model's answer unvalidated (enhance_insights assigns them without
\* validation) must be lists, as List[str] requires.
WellTyped(rec) ==
    rec.payment_methods.t = "list" /\ rec.currencies_accepted.t = "list"

-----------------------------------------------------------------------------
(* llm_processor.py: LLMProcessorService *)

\* What client.ainvoke does for each of the three prompts: it raises, or it
\* returns a response whose content is text (brand context) or is handed to
\* json.loads (FAQs, catalog analysis).
BrandResponses ==
    {[raises |-> TRUE, content |-> ""]} \cup
    {[raises |-> FALSE, content |-> c] : c \in {"better", " better ", "  ", ""}}

GoodFaqJson == JList(<<[question |-> "Q2?", answer |-> "A2"]>>)
FaqJsons ==
    {JInvalid,                              \* not JSON: json.loads raises JSONDecodeError
     GoodFaqJson,                           \* array of question/answer objects
     JList(<<>>),                           \* empty array
     JList(<<[q |-> "Q2?"]>>),              \* array of objects without the keys
     JDict(EmptyDict)}                      \* not an array
FaqResponses ==
    {[raises |-> TRUE, json |-> JInvalid]} \cup
    {[raises |-> FALSE, json |-> j] : j \in FaqJsons}

CatJsons ==
    {JInvalid,
     JDict([payment_methods |-> JList(<<"visa">>), currencies |-> JList(<<"USD">>)]),
     JDict([payment_methods |-> JStr("visa")]),   \* a string where an array was asked for
     JDict(EmptyDict),
     JList(<<>>)}                                 \* an array where an object was asked for
CatResponses ==
    {[raises |-> TRUE, json |-> JInvalid]} \cup
    {[raises |-> FALSE, json |-> j] : j \in CatJsons}

Llms ==
    [enabled : BOOLEAN, brand : BrandResponses, faq : FaqResponses, cat : CatResponses]

\* `from main import FAQ` (llm_processor.py line 101): main.py imports only
\* StoreAnalysisRequest and BrandInsights from pydantic_models, so the name
\* FAQ is not in module main and the import raises ImportError.
MainExportsFAQ == FALSE

\* _enhance_brand_context: the try body returns response.content.strip();
\* any exception returns the argument.
EnhanceBrandContext(brand_context, resp) ==
    IF resp.raises THEN brand_context ELSE Strip(resp.content)

\* faq['question'] and faq['answer'] succeed for every element
HasQuestionAnswer(j) ==
    /\ j.t = "list"
    /\ \A i \in 1..Len(j.v) : {"question", "answer"} \subseteq DOMAIN j.v[i]

\* _enhance_faqs with the JSONDecodeError branch returning an empty list
EnhanceFaqs_EmptyOnDecodeError(faqs, resp) ==
    IF faqs = <<>> THEN faqs
    ELSE IF resp.raises THEN faqs
    ELSE IF resp.json.t = "invalid" THEN <<>>
    ELSE faqs

\* _enhance_faqs: JSONDecodeError returns the argument (line 103), every other
\* exception (ainvoke, the import, KeyError/TypeError of the comprehension)
\* returns the argument too (line 106).
EnhanceFaqs(faqs, resp) ==
    IF faqs = <<>> THEN faqs
    ELSE IF resp.raises THEN faqs
    ELSE IF resp.json.t = "invalid" THEN faqs
    ELSE IF ~MainExportsFAQ THEN faqs
    ELSE IF ~HasQuestionAnswer(resp.json) THEN faqs
    ELSE [i \in 1..Len(resp.json.v) |->
            [question |-> resp.json.v[i].question, answer |-> resp.json.v[i].answer]]

\* _analyze_product_catalog: returns json.loads(response.content) whatever its
\* type; {} on JSONDecodeError or any other exception.
AnalyzeProductCatalog(products, resp) ==
    IF products = 0 THEN JDict(EmptyDict)
    ELSE IF resp.raises THEN JDict(EmptyDict)
    ELSE IF resp.json.t = "invalid" THEN JDict(EmptyDict)
    ELSE resp.json

\* The three sub-steps of enhance_insights, each mutating insights in place.
BrandStep(ins, llm) ==
    IF Truthy(ins.brand_context)
    THEN [ins EXCEPT !.brand_context = EnhanceBrandContext(ins.brand_context, llm.brand)]
    ELSE ins

FaqStep(ins, llm) ==
    IF ins.faqs /= <<>>
    THEN [ins EXCEPT !.faqs = EnhanceFaqs(ins.faqs, llm.faq)]
    ELSE ins

\* enhanced_data.get(...) raises AttributeError when the model's JSON is not an
\* object; the except of enhance_insights (line 48) then returns insights as
\* the earlier sub-steps left it.
CatalogStep(ins, llm) ==
    IF ins.product_catalog > 0
    THEN LET enhanced_data == AnalyzeProductCatalog(ins.product_catalog, llm.cat)
         IN  IF enhanced_data.t /= "dict"
             THEN [rec |-> ins, caught |-> TRUE]
             ELSE [rec |-> [ins EXCEPT
                      !.payment_methods =
                          DictGet(enhanced_data.v, "payment_methods", JList(<<>>)),
                      !.currencies_accepted =
                          DictGet(enhanced_data.v, "currencies", JList(<<>>))],
                   caught |-> FALSE]
    ELSE [rec |-> ins, caught |-> FALSE]

\* The number of client.ainvoke calls enhance_insights makes on ins
ModelCalls(ins) ==
    (IF Truthy(ins.brand_context) THEN 1 ELSE 0)
    + (IF ins.faqs /= <<>> THEN 1 ELSE 0)
    + (IF ins.product_catalog > 0 THEN 1 ELSE 0)

\* enhance_insights without the `if not self.enabled` early return
EnhanceInsights_NoEnabledCheck(ins, llm) ==
    LET c == CatalogStep(FaqStep(BrandStep(ins, llm), llm), llm)
    IN  [rec |-> c.rec, raised |-> FALSE, caught |-> c.caught,
         calls |-> ModelCalls(ins)]

\* enhance_insights: rec is the record returned, raised whether an exception
\* leaves the method, caught whether its own except branch ran, calls the
\* number of calls made to the external model.
EnhanceInsights(ins, llm) ==
    IF ~llm.enabled
    THEN [rec |-> ins, raised |-> FALSE, caught |-> FALSE, calls |-> 0]
    ELSE LET c == CatalogStep(FaqStep(BrandStep(ins, llm), llm), llm)
         IN  [rec |-> c.rec, raised |-> FALSE, caught |-> c.caught,
              calls |-> ModelCalls(ins)]

-----------------------------------------------------------------------------
(* shopify_scraper.py: ShopifyScraperService *)

\* insights.product_catalog = products[:500]
CatalogCap == 500

\* What the target site answers during one analyze_store call: the units
\* whose fetches fail (connection error, timeout, error status), and which of
\* the contents the pages that answer have.  Under content 3 the store has no
\* /products.json (404) and the products unit falls back to the sitemap.
Variants == {1, 2, 3}
Sites == [failed : SUBSET Units, variant : Variants]

\* The units that fetch the root page store_url itself
RootUnits == {"homepage", "social", "links"}

ProductList(n) == [t |-> "list", len |-> n]
ContactValue(c) == [t |-> "ContactInfo", v |-> c]

\* for url in product_urls[:50]
SitemapCap == 50

\* What /products.json answers: its status, the entries of its "products"
\* array that build a ProductInfo (good) and those that do not (bad), and the
\* product urls /sitemap_products_1.xml lists.
ProductsAnswer(variant) ==
    CASE variant = 1 -> [status |-> 200, good |-> 2, bad |-> 1, sitemap |-> 0]
      [] variant = 2 -> [status |-> 200, good |-> CatalogCap + 1, bad |-> 0,
                         sitemap |-> 0]
      [] OTHER       -> [status |-> 404, good |-> 0, bad |-> 0,
                         sitemap |-> SitemapCap + 1]

\* _scrape_products_from_sitemap: one product per listed url, first 50 urls
ScrapeProductsFromSitemap(answer) == ProductList(Min(answer.sitemap, SitemapCap))

\* _scrape_products when its fetch succeeds: a 404 goes to the sitemap, else
\* every entry that builds a ProductInfo is appended, the others are skipped
ScrapeProducts(answer) ==
    IF answer.status = 404
    THEN ScrapeProductsFromSitemap(answer)
    ELSE ProductList(answer.good)

\* What each unit returns when its fetch and parse succeed
UnitValue(u, variant) ==
    CASE u = "products" -> ScrapeProducts(ProductsAnswer(variant))
      [] u = "homepage" ->
            IF variant = 1
            THEN JDict([store_name |-> "Shop", brand_context |-> "ctx", hero_products |-> 1])
            ELSE JDict([store_name |-> "", brand_context |-> "", hero_products |-> 0])
      [] u = "policies" ->
            IF variant = 1
            THEN JDict([privacy_policy |-> "pp", return_refund_policy |-> "rp"])
            ELSE JDict([privacy_policy |-> "pp"])
      [] u = "contact" ->
            IF variant = 1
            THEN ContactValue([emails |-> {"a@shop"}, phones |-> {}, address |-> None])
            ELSE ContactValue([emails |-> {"a@shop"}, phones |-> {"0123456789"},
                               address |-> "1 Main St 12345"])
      [] u = "social" ->
            IF variant = 1 THEN JList(<<"instagram">>) ELSE JList(<<"instagram", "facebook">>)
      [] u = "faqs" ->
            IF variant = 1
            THEN JList(<<[question |-> "Q?", answer |-> "A"]>>)
            ELSE JList(<<[question |-> "Q?", answer |-> "A"],
                         [question |-> "R?", answer |-> "B"]>>)
      [] u = "links" ->
            IF variant = 1 THEN JList(<<"/blog">>) ELSE JList(<<"/blog", "/pages/contact">>)

\* UnitFallback with the homepage unit returning, on failure, the dictionary
\* of what it had extracted so far instead of {}
UnitFallback_PartialHomepage(u) ==
    CASE u = "products" -> ProductList(0)
      [] u = "homepage" -> JDict([store_name |-> "", brand_context |-> "",
                                  hero_products |-> 0])
      [] u = "policies" -> JDict(EmptyDict)
      [] u = "contact"  -> ContactValue(DefaultContact)
      [] OTHER          -> JList(<<>>)

\* What each unit returns from its own except branch (or, for policies and
\* contact, when every candidate path fails)
UnitFallback(u) ==
    CASE u = "products" -> ProductList(0)                 \* line 119
      [] u = "homepage" -> JDict(EmptyDict)               \* line 256
      [] u = "policies" -> JDict(EmptyDict)               \* line 260, 292
      [] u = "contact"  -> ContactValue(DefaultContact)   \* line 339
      [] u = "social"   -> JList(<<>>)                    \* line 389
      [] u = "faqs"     -> JList(<<>>)                    \* line 440, 444
      [] u = "links"    -> JList(<<>>)                    \* line 492

\* One unit coroutine (_scrape_products, _scrape_homepage, ...): every
\* exception of its fetches is caught inside the unit.
UnitReturn(u, site) ==
    IF u \in site.failed THEN UnitFallback(u) ELSE UnitValue(u, site.variant)

\* results = await asyncio.gather(*tasks, return_exceptions=True)
Gather(site) == [u \in Units |-> UnitReturn(u, site)]

\* Merge with total_products counted after the cap: len(products[:500])
Merge_CountAfterCap(store_url, results) ==
    LET i0 == NewInsights(store_url)
        capped == Min(results["products"].len, CatalogCap)
        i1 == [i0 EXCEPT !.product_catalog = capped, !.total_products = capped]
        i2 == [i1 EXCEPT
                 !.hero_products = DictGet(results["homepage"].v, "hero_products", 0),
                 !.store_name = DictGet(results["homepage"].v, "store_name", None),
                 !.brand_context = DictGet(results["homepage"].v, "brand_context", None),
                 !.privacy_policy =
                     DictGet(results["policies"].v, "privacy_policy", None),
                 !.return_refund_policy =
                     DictGet(results["policies"].v, "return_refund_policy", None)]
    IN  [i2 EXCEPT !.contact_info = results["contact"].v,
                   !.social_handles = results["social"].v,
                   !.faqs = results["faqs"].v,
                   !.important_links = results["links"].v]

\* analyze_store lines 44-69: the isinstance branches
Merge(store_url, results) ==
    LET i0 == NewInsights(store_url)
        i1 == IF results["products"].t = "list"
              THEN [i0 EXCEPT !.product_catalog = Min(results["products"].len, CatalogCap),
                              !.total_products = results["products"].len]
              ELSE i0
        i2 == IF results["homepage"].t = "dict"
              THEN [i1 EXCEPT
                      !.hero_products = DictGet(results["homepage"].v, "hero_products", 0),
                      !.store_name = DictGet(results["homepage"].v, "store_name", None),
                      !.brand_context = DictGet(results["homepage"].v, "brand_context", None)]
              ELSE i1
        i3 == IF results["policies"].t = "dict"
              THEN [i2 EXCEPT
                      !.privacy_policy =
                          DictGet(results["policies"].v, "privacy_policy", None),
                      !.return_refund_policy =
                          DictGet(results["policies"].v, "return_refund_policy", None)]
              ELSE i2
        i4 == IF results["contact"].t = "ContactInfo"
              THEN [i3 EXCEPT !.contact_info = results["contact"].v]
              ELSE i3
        i5 == IF results["social"].t = "list"
              THEN [i4 EXCEPT !.social_handles = results["social"].v]
              ELSE i4
        i6 == IF results["faqs"].t = "list"
              THEN [i5 EXCEPT !.faqs = results["faqs"].v]
              ELSE i5
    IN  IF results["links"].t = "list"
        THEN [i6 EXCEPT !.important_links = results["links"].v]
        ELSE i6

\* The llm_service argument: main.py passes LLMProcessorService() when
\* request.use_llm, else None.
NoLlm == [used |-> FALSE]
WithLlm(llm) == [used |-> TRUE, llm |-> llm]

\* analyze_store from the merged record on (lines 71-79): rec is the record
\* returned, raised whether the call ends in an exception, calls the number
\* of calls made to the external model.
Finish(merged, service) ==
    IF service.used
    THEN LET e == EnhanceInsights(merged, service.llm)
         IN  [rec |-> e.rec, raised |-> e.raised, calls |-> e.calls]
    ELSE [rec |-> merged, raised |-> FALSE, calls |-> 0]

\* analyze_store as a whole
AnalyzeStore(store_url, site, service) ==
    Finish(Merge(store_url, Gather(site)), service)

-----------------------------------------------------------------------------
(* Idle values of the three groups of variables *)

Urls == {"https://a.shop", "https://b.shop"}
TheUrl == "https://a.shop"

Pending == [t |-> "pending"]

NoOutcome(rec) ==
    [done |-> FALSE, rec |-> rec, raised |-> FALSE, caught |-> FALSE, calls |-> 0]

DisabledLlm ==
    [enabled |-> FALSE,
     brand   |-> [raises |-> TRUE, content |-> ""],
     faq     |-> [raises |-> TRUE, json |-> JInvalid],
     cat     |-> [raises |-> TRUE, json |-> JInvalid]]

CoordIdle ==
    /\ cSite = [failed |-> {}, variant |-> 1]
    /\ cLlm = NoLlm
    /\ cResults = [u \in Units |-> Pending]
    /\ cFirst = "none"
    /\ cOut = NoOutcome(NewInsights(TheUrl))

NotReturned == [done |-> FALSE]
Returned(value) == [done |-> TRUE, v |-> value]

UnitIdle ==
    /\ fIn = <<>>
    /\ fOut = NotReturned

HookIdle ==
    /\ hIn = NewInsights(TheUrl)
    /\ hLlm = DisabledLlm
    /\ hOut = NoOutcome(NewInsights(TheUrl))

-----------------------------------------------------------------------------
(* HookSpec: one call of enhance_insights on every record analyze_store can *)
(* pass in, for every answer of the model                                  *)

HookInputs == {Merge(TheUrl, Gather(site)) : site \in Sites}

HookInit ==
    /\ hIn \in HookInputs
    /\ hLlm \in Llms
    /\ hOut = NoOutcome(hIn)
    /\ CoordIdle
    /\ UnitIdle
    /\ now = 0 /\ db = {} /\ nextId = 1 /\ req = <<>>

Enhance ==
    /\ ~hOut.done
    /\ LET e == EnhanceInsights(hIn, hLlm)
       IN  hOut' = [done |-> TRUE, rec |-> e.rec, raised |-> e.raised,
                    caught |-> e.caught, calls |-> e.calls]
    /\ UNCHANGED <<hIn, hLlm, coordVars, storeVars, unitVars>>

HookNext == Enhance

HookSpec == HookInit /\ [][HookNext]_vars

-----------------------------------------------------------------------------
(* CoordSpec: one call of analyze_store, the seven units finishing in any  *)
(* order                                                                   *)

GoodLlm ==
    [enabled |-> TRUE,
     brand   |-> [raises |-> FALSE, content |-> " better "],
     faq     |-> [raises |-> FALSE, json |-> GoodFaqJson],
     cat     |-> [raises |-> FALSE,
                  json |-> JDict([payment_methods |-> JList(<<"visa">>),
                                  currencies |-> JList(<<"USD">>)])]]

\* the model answers the catalog prompt with a string under payment_methods
StringLlm ==
    [GoodLlm EXCEPT !.cat = [raises |-> FALSE,
                             json |-> JDict([payment_methods |-> JStr("visa")])]]

CoordServices == {NoLlm, WithLlm(DisabledLlm), WithLlm(GoodLlm)}

CoordInit ==
    /\ cSite \in Sites
    /\ cLlm \in CoordServices
    /\ cResults = [u \in Units |-> Pending]
    /\ cFirst = "none"
    /\ cOut = NoOutcome(NewInsights(TheUrl))
    /\ HookIdle
    /\ UnitIdle
    /\ now = 0 /\ db = {} /\ nextId = 1 /\ req = <<>>

\* Collect with the results of the two tasks that scan the links of the root
\* page placed in the order these tasks finish, not in the order they were
\* passed to the gather
Collect_CompletionOrder(results, u, value) ==
    IF u \in {"social", "links"} /\ results["social"] = Pending
    THEN [results EXCEPT !["social"] = value]
    ELSE [results EXCEPT ![u] = value]

\* asyncio.gather puts the result of each awaitable at the position the
\* awaitable has in its argument list, whenever it finishes; line 44 unpacks
\* the list by position.
Collect(results, u, value) == [results EXCEPT ![u] = value]

\* one of the seven tasks of the gather reaches its return
UnitFinish(u) ==
    /\ ~cOut.done
    /\ cResults[u] = Pending
    /\ cResults' = Collect(cResults, u, UnitReturn(u, cSite))
    /\ cFirst' = IF cFirst = "none" THEN u ELSE cFirst
    /\ UNCHANGED <<cSite, cLlm, cOut, hookVars, storeVars, unitVars>>

\* the gather is complete: merge, enhance, return
CoordReturn ==
    /\ ~cOut.done
    /\ \A u \in Units : cResults[u] /= Pending
    /\ LET f == Finish(Merge(TheUrl, cResults), cLlm)
       IN  cOut' = [done |-> TRUE, rec |-> f.rec, raised |-> f.raised,
                    caught |-> FALSE, calls |-> f.calls]
    /\ UNCHANGED <<cSite, cLlm, cResults, cFirst, hookVars, storeVars, unitVars>>

CoordNext ==
    \/ \E u \in Units : UnitFinish(u)
    \/ CoordReturn

CoordSpec == CoordInit /\ [][CoordNext]_vars

-----------------------------------------------------------------------------
(* shopify_scraper.py: the units that scan the links of the root page.     *)
(*                                                                         *)
(* An href is a sequence of segments, cut so that every domain of the      *)
(* platform table and every path component is one or more whole segments;  *)
(* `domain in href` is then the test for a contiguous sub-sequence.        *)

\* Python's `needle in text` on strings
InStr(needle, text) ==
    \E i \in 1..(Len(text) - Len(needle) + 1) :
        SubSeq(text, i, i + Len(needle) - 1) = needle

\* social_platforms (lines 350-358), in the order of the dict
Platforms ==
    <<"instagram", "facebook", "twitter", "tiktok", "youtube", "linkedin",
      "pinterest">>

Domains(platform) ==
    CASE platform = "instagram" -> <<(<<"instagram", ".com">>), (<<"instagr.am">>)>>
      [] platform = "facebook"  -> <<(<<"facebook", ".com">>), (<<"fb", ".com">>)>>
      [] platform = "twitter"   -> <<(<<"twitter", ".com">>), (<<"x", ".com">>)>>
      [] platform = "tiktok"    -> <<(<<"tiktok", ".com">>)>>
      [] platform = "youtube"   -> <<(<<"youtube", ".com">>), (<<"youtu.be">>)>>
      [] platform = "linkedin"  -> <<(<<"linkedin", ".com">>)>>
      [] platform = "pinterest" -> <<(<<"pinterest", ".com">>)>>

\* the segments that hold a "/" or a "?"
Separators == {"https://", "/", "/@", "?u="}

\* the domains and the separator each regular expression of
\* _extract_social_handle asks for before the captured group ([^/?]+)
HandlePatterns(platform) ==
    CASE platform = "instagram" -> {<<"instagram", ".com", "/">>}
      [] platform = "twitter"   -> {<<"twitter", ".com", "/">>, <<"x", ".com", "/">>}
      [] platform = "facebook"  -> {<<"facebook", ".com", "/">>}
      [] platform = "tiktok"    -> {<<"tiktok", ".com", "/@">>}
      [] platform = "youtube"   -> {<<"youtube", ".com", "/">>}
      [] OTHER                  -> {}

\* the optional group (?:c/|channel/|user/)? of the youtube expression
SkippedPrefixes(platform) ==
    IF platform = "youtube" THEN {"c", "channel", "user"} ELSE {}

\* _extract_social_handle: re.search takes the leftmost match; the group is
\* the path component after the pattern, "" when there is no match
ExtractSocialHandle(url, platform) ==
    LET IsName(k) == k <= Len(url) /\ url[k] \notin Separators
        \* the position of the captured component for a match starting at i
        Capture(i, pat) ==
            LET k == i + Len(pat)
            IN  IF /\ IsName(k) /\ url[k] \in SkippedPrefixes(platform)
                   /\ k + 1 <= Len(url) /\ url[k + 1] = "/" /\ IsName(k + 2)
                THEN k + 2
                ELSE k
        starts == {i \in 1..Len(url) :
                     \E pat \in HandlePatterns(platform) :
                        /\ i + Len(pat) - 1 <= Len(url)
                        /\ SubSeq(url, i, i + Len(pat) - 1) = pat
                        /\ IsName(i + Len(pat))}
    IN  IF starts = {}
        THEN ""
        ELSE LET i == CHOOSE x \in starts : \A y \in starts : x <= y
                 pat == CHOOSE q \in HandlePatterns(platform) :
                           /\ i + Len(q) - 1 <= Len(url)
                           /\ SubSeq(url, i, i + Len(q) - 1) = q
             IN  url[Capture(i, pat)]

\* `for domain in domains: if domain in href: ...; break`
MatchesPlatform(href, platform) ==
    \E k \in 1..Len(Domains(platform)) : InStr(Domains(platform)[k], href)

SocialHandle(platform, href) ==
    [platform |-> platform, url |-> href,
     handle |-> ExtractSocialHandle(href, platform)]

\* the entries one link appends: one per platform it matches, in dict order
\* (the break leaves the loop over the domains, not the one over platforms)
HandlesOfLink(href) ==
    LET matching == SelectSeq(Platforms, LAMBDA p : MatchesPlatform(href, p))
    IN  [k \in 1..Len(matching) |-> SocialHandle(matching[k], href)]

RECURSIVE HandlesOfLinks(_)
HandlesOfLinks(links) ==
    IF links = <<>>
    THEN <<>>
    ELSE HandlesOfLink(Head(links)) \o HandlesOfLinks(Tail(links))

\* UniqueByPlatform keeping, for each platform, the entry met last
RECURSIVE UniqueByPlatform_KeepLast(_)
UniqueByPlatform_KeepLast(handles) ==
    IF handles = <<>>
    THEN <<>>
    ELSE LET rest == UniqueByPlatform_KeepLast(Tail(handles))
         IN  IF \E k \in 1..Len(rest) : rest[k].platform = Head(handles).platform
             THEN rest
             ELSE <<Head(handles)>> \o rest

\* lines 377-383: remove duplicates based on platform, first entry kept
RECURSIVE UniqueByPlatform(_)
UniqueByPlatform(handles) ==
    IF handles = <<>>
    THEN <<>>
    ELSE LET h == Head(handles)
             rest == SelectSeq(Tail(handles), LAMBDA x : x.platform /= h.platform)
         IN  <<h>> \o UniqueByPlatform(rest)

\* _scrape_social_handles on the links of the fetched page, in DOM order
ScrapeSocialHandles(links) == UniqueByPlatform(HandlesOfLinks(links))

\* the hrefs a page is built from
SocialHrefs ==
    {<<"https://", "instagram", ".com", "/", "shop">>,
     <<"https://", "instagr.am", "/", "shop">>,
     <<"https://", "facebook", ".com", "/", "sharer", "?u=", "instagram", ".com">>,
     <<"https://", "netfli", "x", ".com", "/", "title">>,
     <<"https://", "www.", "youtube", ".com", "/", "c", "/", "shop">>,
     <<"/", "pages", "/", "about">>}

MaxLinks == 3

RECURSIVE SeqsUpTo(_, _)
SeqsUpTo(S, n) ==
    IF n = 0
    THEN {<<>>}
    ELSE LET shorter == SeqsUpTo(S, n - 1)
         IN  shorter \cup {Append(q, x) : q \in shorter, x \in S}

\* SocialSpec: one call of _scrape_social_handles on every page of at most
\* MaxLinks links
SocialInit ==
    /\ fIn \in SeqsUpTo(SocialHrefs, MaxLinks)
    /\ fOut = NotReturned
    /\ CoordIdle
    /\ HookIdle
    /\ now = 0 /\ db = {} /\ nextId = 1 /\ req = <<>>

ScrapeSocial ==
    /\ ~fOut.done
    /\ fOut' = Returned(ScrapeSocialHandles(fIn))
    /\ UNCHANGED <<fIn, coordVars, hookVars, storeVars>>

SocialNext == ScrapeSocial

SocialSpec == SocialInit /\ [][SocialNext]_vars

-----------------------------------------------------------------------------
(* shopify_scraper.py: _scrape_important_links.  A link is its href and its *)
(* text, both sequences of segments.                                       *)

\* return unique_links[:15]
LinkCap == 15

\* important_keywords, in list order
ImportantKeywords ==
    <<"track", "order", "blog", "news", "contact", "support", "help",
      "shipping", "size-guide", "careers", "about">>

\* str.lower() on the segments that hold capitals
Lower(text) ==
    [k \in 1..Len(text) |->
        CASE text[k] = "Our"   -> "our"
          [] text[k] = "Blog"  -> "blog"
          [] text[k] = "Help"  -> "help"
          [] text[k] = "Sizes" -> "sizes"
          [] text[k] = "Track" -> "track"
          [] OTHER             -> text[k]]

\* keyword.title()
Title(keyword) ==
    CASE keyword = "track"      -> "Track"
      [] keyword = "order"      -> "Order"
      [] keyword = "blog"       -> "Blog"
      [] keyword = "news"       -> "News"
      [] keyword = "contact"    -> "Contact"
      [] keyword = "support"    -> "Support"
      [] keyword = "help"       -> "Help"
      [] keyword = "shipping"   -> "Shipping"
      [] keyword = "size-guide" -> "Size-Guide"
      [] keyword = "careers"    -> "Careers"
      [] keyword = "about"      -> "About"

\* urljoin(store_url, href) for a store_url without a path
UrlJoin(base, href) ==
    IF href = <<>> THEN base
    ELSE IF href[1] = "https://" THEN href
    ELSE IF href[1] = "/" THEN base \o href
    ELSE IF href[1] = "#" THEN base \o href
    ELSE base \o <<"/">> \o href

LinkBase == <<"https://", "a.shop">>

\* line 467: a fragment, or a link to one of three social sites
SkippedLink(link) ==
    \/ link.href /= <<>> /\ link.href[1] = "#"
    \/ \E social \in {"facebook", "instagram", "twitter"} :
          InStr(<<social>>, link.href)

\* the positions in important_keywords of the keywords found in the lowered
\* text or href of the link
KeywordsOf(link) ==
    {k \in 1..Len(ImportantKeywords) :
        \/ InStr(<<ImportantKeywords[k]>>, Lower(link.text))
        \/ InStr(<<ImportantKeywords[k]>>, Lower(link.href))}

\* the link is appended to important_links
Important(link) == ~SkippedLink(link) /\ KeywordsOf(link) /= {}

\* the ImportantLink appended for a link, built from the first keyword found
ImportantLink(link) ==
    LET k == CHOOSE x \in KeywordsOf(link) : \A y \in KeywordsOf(link) : x <= y
        keyword == ImportantKeywords[k]
    IN  [name |-> IF link.text /= <<>> THEN link.text ELSE <<Title(keyword)>>,
         url |-> UrlJoin(LinkBase, link.href),
         description |-> keyword]

\* lines 462-477: the loop over the links of the page
RECURSIVE ImportantLinksOf(_)
ImportantLinksOf(links) ==
    IF links = <<>>
    THEN <<>>
    ELSE (IF Important(Head(links)) THEN <<ImportantLink(Head(links))>> ELSE <<>>)
            \o ImportantLinksOf(Tail(links))

\* UniqueByUrl keeping, for each url, the entry met last
RECURSIVE UniqueByUrl_KeepLast(_)
UniqueByUrl_KeepLast(entries) ==
    IF entries = <<>>
    THEN <<>>
    ELSE LET rest == UniqueByUrl_KeepLast(Tail(entries))
         IN  IF \E k \in 1..Len(rest) : rest[k].url = Head(entries).url
             THEN rest
             ELSE <<Head(entries)>> \o rest

\* lines 479-486: remove duplicates, the first entry of a url kept
RECURSIVE UniqueByUrl(_)
UniqueByUrl(entries) ==
    IF entries = <<>>
    THEN <<>>
    ELSE LET e == Head(entries)
             rest == SelectSeq(Tail(entries), LAMBDA x : x.url /= e.url)
         IN  <<e>> \o UniqueByUrl(rest)

\* _scrape_important_links on the links of the fetched page, in DOM order
ScrapeImportantLinks(links) ==
    LET unique_links == UniqueByUrl(ImportantLinksOf(links))
    IN  SubSeq(unique_links, 1, Min(Len(unique_links), LinkCap))

\* the links a page starts with
PageLinks ==
    {[href |-> <<"/", "blog">>, text |-> <<"Our", " ", "Blog">>],
     [href |-> <<"https://", "a.shop", "/", "blog">>, text |-> <<>>],
     [href |-> <<"#", "help">>, text |-> <<"Help">>],
     [href |-> <<"https://", "facebook", ".com", "/", "help">>, text |-> <<"Help">>],
     [href |-> <<"/", "pages", "/", "sizes">>, text |-> <<"Sizes">>],
     [href |-> <<"/", "pages", "/", "contact">>, text |-> <<"Track", " ", "order">>]}

\* n links to n different blog posts, as a page footer lists them
BlogPosts(n) ==
    [i \in 1..n |-> [href |-> <<"/", "blog", "/", ToString(i)>>, text |-> <<>>]]

\* how many blog posts follow the first links of the page
PostCounts == {0, LinkCap - 2, LinkCap, LinkCap + 1}

MaxFirstLinks == 2

\* LinksSpec: one call of _scrape_important_links on every page made of at
\* most MaxFirstLinks links of PageLinks followed by a list of blog posts
LinksInit ==
    /\ \E first \in SeqsUpTo(PageLinks, MaxFirstLinks) : \E n \in PostCounts :
          fIn = first \o BlogPosts(n)
    /\ fOut = NotReturned
    /\ CoordIdle
    /\ HookIdle
    /\ now = 0 /\ db = {} /\ nextId = 1 /\ req = <<>>

ScrapeLinks ==
    /\ ~fOut.done
    /\ fOut' = Returned(ScrapeImportantLinks(fIn))
    /\ UNCHANGED <<fIn, coordVars, hookVars, storeVars>>

LinksNext == ScrapeLinks

LinksSpec == LinksInit /\ [][LinksNext]_vars

-----------------------------------------------------------------------------
(* shopify_scraper.py: _scrape_policies.  A page text is modelled by the    *)
(* path it was fetched from and its length after the clean-up.              *)

\* if len(content) > 100
PolicyMinChars == 100

\* content[:2000]
PolicyCap == 2000

PolicyTypes == <<"privacy_policy", "return_refund_policy">>

\* policy_urls (lines 262-265)
PolicyUrls(policy_type) ==
    IF policy_type = "privacy_policy"
    THEN <<"/pages/privacy-policy", "/policies/privacy-policy", "/privacy">>
    ELSE <<"/pages/refund-policy", "/pages/returns", "/policies/refund-policy",
           "/refund-policy">>

AllPolicyPaths ==
    UNION {{PolicyUrls(PolicyTypes[t])[k] : k \in 1..Len(PolicyUrls(PolicyTypes[t]))} :
             t \in 1..Len(PolicyTypes)}

\* What a candidate path answers: an exception of the fetch, or a status and
\* a page whose cleaned text has len characters
PolicyResponses ==
    {[raises |-> TRUE,  status |-> 0,   len |-> 0],
     [raises |-> FALSE, status |-> 404, len |-> PolicyCap],
     [raises |-> FALSE, status |-> 200, len |-> PolicyMinChars],
     [raises |-> FALSE, status |-> 200, len |-> PolicyMinChars + 1],
     [raises |-> FALSE, status |-> 200, len |-> PolicyCap + 1]}

\* lines 273-284: the candidate's text is taken
Substantial(response) ==
    /\ ~response.raises
    /\ response.status = 200
    /\ response.len > PolicyMinChars

\* policies[policy_type] = content[:2000]
PolicyText(url_path, response) ==
    [from |-> url_path, len |-> Min(response.len, PolicyCap)]

\* ScrapePolicy without the break: every substantial candidate overwrites
\* the entry, the last one stays
RECURSIVE ScrapePolicy_NoBreak(_, _)
ScrapePolicy_NoBreak(urls, site) ==
    IF urls = <<>>
    THEN <<>>
    ELSE LET later == ScrapePolicy_NoBreak(Tail(urls), site)
         IN  IF later /= <<>> THEN later
             ELSE IF Substantial(site[Head(urls)])
                  THEN <<PolicyText(Head(urls), site[Head(urls)])>>
                  ELSE <<>>

\* the loop over the candidates of one policy type: <<text>> when an entry is
\* written, <<>> when the loop ends without one
RECURSIVE ScrapePolicy(_, _)
ScrapePolicy(urls, site) ==
    IF urls = <<>>
    THEN <<>>
    ELSE IF Substantial(site[Head(urls)])
         THEN <<PolicyText(Head(urls), site[Head(urls)])>>     \* break
         ELSE ScrapePolicy(Tail(urls), site)                   \* next candidate

\* _scrape_policies: the dictionary returned, a key only for a type whose
\* loop wrote an entry
ScrapePolicies(site) ==
    LET written == {t \in 1..Len(PolicyTypes) :
                      ScrapePolicy(PolicyUrls(PolicyTypes[t]), site) /= <<>>}
        keys == {PolicyTypes[t] : t \in written}
    IN  [key \in keys |-> ScrapePolicy(PolicyUrls(key), site)[1]]

\* PolicySpec: one call of _scrape_policies for every answer of the seven
\* candidate paths
PolicyInit ==
    /\ fIn \in [AllPolicyPaths -> PolicyResponses]
    /\ fOut = NotReturned
    /\ CoordIdle
    /\ HookIdle
    /\ now = 0 /\ db = {} /\ nextId = 1 /\ req = <<>>

ScrapePoliciesCall ==
    /\ ~fOut.done
    /\ fOut' = Returned(ScrapePolicies(fIn))
    /\ UNCHANGED <<fIn, coordVars, hookVars, storeVars>>

PolicyNext == ScrapePoliciesCall

PolicySpec == PolicyInit /\ [][PolicyNext]_vars

-----------------------------------------------------------------------------
(* models.py: ShopifyStore; main.py: analyze_shopify_store                 *)
(*                                                                         *)
(* A row of shopify_stores is [id, store_url, insights_data, updated_at];  *)
(* the columns the handler never reads or writes after the insert          *)
(* (store_name, created_at, is_active) are left out.  One clock stands for *)
(* both datetime.utcnow() and the database's now().  The handler is split  *)
(* at its one await (line 75): other requests run between Begin and        *)
(* Complete.  A response is what the handler returns or raises.            *)

\* is_recent(self, hours=24)
MaxAgeHours == 24

\* the clock advances in steps of TickHours up to MaxNow
TickHours == 12
MaxNow == 36

Reqs == {"r1", "r2"}

\* insights.json() and json.dumps(insights.dict()): the JSON text of the record
Serialize(rec) == [json |-> rec]

\* BrandInsights.parse_raw: parses the text and validates it against the
\* model's field types; ok is false when it raises ValidationError.
ParseRaw(text) ==
    IF WellTyped(text.json)
    THEN [ok |-> TRUE, rec |-> text.json]
    ELSE [ok |-> FALSE, rec |-> NewInsights("")]

\* ShopifyStore.is_recent
IsRecent(row, t) == t - row.updated_at < MaxAgeHours

\* ShopifyStore.update_insights with updated_at left as it was
UpdateInsights_KeepTimestamp(row, insights, t) ==
    [row EXCEPT !.insights_data = Serialize(insights)]

\* ShopifyStore.update_insights
UpdateInsights(row, insights, t) ==
    [row EXCEPT !.insights_data = Serialize(insights), !.updated_at = t]

\* db.query(ShopifyStore).filter(ShopifyStore.store_url == store_url).first(),
\* as a sequence of zero or one rows.  Of the row it found the handler later
\* uses the identity only (the UPDATE of the commit is keyed by id), so a
\* request in flight holds the id.
Lookup(table, store_url) ==
    IF \E x \in table : x.store_url = store_url
    THEN <<CHOOSE x \in table : x.store_url = store_url>>
    ELSE <<>>

\* The exceptions the handler's except branch sees; words are the substrings
\* of str(e) that the branch tests for.
ValidationError == [kind |-> "ValidationError", words |-> {}]
IntegrityError  == [kind |-> "IntegrityError", words |-> {}]

\* the except branch of analyze_shopify_store (lines 89-97); the detail of
\* the 500 answer is f"Internal server error: {str(e)}", modelled by the kind
\* of the exception whose text it holds
HttpError(e) ==
    IF "404" \in e.words \/ "not found" \in e.words
    THEN [status |-> 404, body |-> <<>>, detail |-> "Store not found"]
    ELSE IF "timeout" \in e.words
    THEN [status |-> 408, body |-> <<>>, detail |-> "Request timeout while fetching store data"]
    ELSE [status |-> 500, body |-> <<>>, detail |-> e.kind]

HttpOk(rec) == [status |-> 200, body |-> <<rec>>, detail |-> ""]
NoResponse == [status |-> 0, body |-> <<>>, detail |-> ""]

\* INSERT of a new row without the unique index on store_url
Insert_NoUniqueIndex(table, id, store_url, insights, t) ==
    [ok |-> TRUE,
     table |-> table \cup {[id |-> id, store_url |-> store_url,
                            insights_data |-> Serialize(insights), updated_at |-> t]}]

\* db.add(new_store); db.commit(): store_url is a unique column, so the INSERT
\* fails (IntegrityError) when a row with that store_url exists; updated_at
\* takes the server default now().
Insert(table, id, store_url, insights, t) ==
    IF \E x \in table : x.store_url = store_url
    THEN [ok |-> FALSE, table |-> table]
    ELSE [ok |-> TRUE,
          table |-> table \cup {[id |-> id, store_url |-> store_url,
                                 insights_data |-> Serialize(insights), updated_at |-> t]}]

\* existing_store.update_insights(...); db.commit(): UPDATE ... WHERE id = id
Update(table, id, insights, t) ==
    {IF x.id = id THEN UpdateInsights(x, insights, t) ELSE x : x \in table}

IdleReq ==
    [pc |-> "idle", url |-> TheUrl, use_llm |-> FALSE, existing |-> <<>>,
     coord |-> 0, model |-> 0, site |-> [failed |-> {}, variant |-> 1],
     raised |-> FALSE, resp |-> NoResponse]

\* the sites and model answers the requests of Spec meet
AllDown  == [failed |-> Units, variant |-> 1]
StoreSites == {[failed |-> {}, variant |-> 1], AllDown}
StoreLlms == {GoodLlm, StringLlm}

Init ==
    /\ now = 0
    /\ db = {}
    /\ nextId = 1
    /\ req = [r \in Reqs |-> IdleReq]
    /\ CoordIdle
    /\ HookIdle
    /\ UnitIdle

Tick ==
    /\ now + TickHours <= MaxNow
    /\ now' = now + TickHours
    /\ UNCHANGED <<db, nextId, req, coordVars, hookVars, unitVars>>

\* analyze_shopify_store up to its await (lines 59-75): the lookup, and the
\* cached return when the row is recent
Begin(r, store_url, use_llm) ==
    /\ req[r].pc \in {"idle", "done"}
    /\ LET existing_store == Lookup(db, store_url)
           start == [IdleReq EXCEPT !.url = store_url]
       IN  IF existing_store /= <<>> /\ IsRecent(existing_store[1], now)
           THEN LET p == ParseRaw(existing_store[1].insights_data)
                IN  req' = [req EXCEPT ![r] =
                              [start EXCEPT !.pc = "done",
                                 !.resp = IF p.ok THEN HttpOk(p.rec)
                                          ELSE HttpError(ValidationError)]]
           ELSE req' = [req EXCEPT ![r] =
                          [start EXCEPT !.pc = "scraping", !.coord = 1,
                             !.use_llm = use_llm,
                             !.existing = IF existing_store = <<>> THEN <<>>
                                          ELSE <<existing_store[1].id>>]]
    /\ UNCHANGED <<now, db, nextId, coordVars, hookVars, unitVars>>

\* analyze_shopify_store from the return of analyze_store on (lines 75-97):
\* the save, the commit and the response
Complete(r, site, llm) ==
    /\ req[r].pc = "scraping"
    /\ LET service == IF req[r].use_llm THEN WithLlm(llm) ELSE NoLlm
           a == AnalyzeStore(req[r].url, site, service)
           fin == [IdleReq EXCEPT !.pc = "done", !.url = req[r].url, !.coord = req[r].coord,
                                  !.site = site, !.model = a.calls,
                                  !.raised = a.raised]
       IN  IF req[r].existing /= <<>>
           THEN /\ db' = Update(db, req[r].existing[1], a.rec, now)
                /\ nextId' = nextId
                /\ req' = [req EXCEPT ![r] = [fin EXCEPT !.resp = HttpOk(a.rec)]]
           ELSE LET ins == Insert(db, nextId, req[r].url, a.rec, now)
                IN  /\ db' = ins.table
                    /\ nextId' = IF ins.ok THEN nextId + 1 ELSE nextId
                    /\ req' = [req EXCEPT ![r] =
                                 [fin EXCEPT !.resp = IF ins.ok THEN HttpOk(a.rec)
                                                      ELSE HttpError(IntegrityError)]]
    /\ UNCHANGED <<now, coordVars, hookVars, unitVars>>

Next ==
    \/ Tick
    \/ \E r \in Reqs, u \in Urls, l \in BOOLEAN : Begin(r, u, l)
    \/ \E r \in Reqs, site \in StoreSites, llm \in StoreLlms : Complete(r, site, llm)

Spec == Init /\ [][Next]_vars

-----------------------------------------------------------------------------
(* RaiseSpec: the handler when, in addition, an exception may leave          *)
(* analyze_store.  analyze_store logs and re-raises whatever reaches its     *)
(* except branch (shopify_scraper.py lines 77-79); the units and             *)
(* enhance_insights catch their own errors, so such an exception is an input *)
(* of the environment here.                                                  *)

\* the exceptions that leave analyze_store, with the words the handler's
\* except branch looks for in their text
EscapingErrors ==
    {[kind |-> "RuntimeError", words |-> {}],
     [kind |-> "ReadTimeout", words |-> {"timeout"}],
     [kind |-> "HTTPError", words |-> {"404", "not found"}]}

\* SaveSkipped with the row found at lookup stamped before the exception
SaveSkipped_TouchesRow(table, existing, t) ==
    {IF existing /= <<>> /\ x.id = existing[1]
     THEN [x EXCEPT !.updated_at = t]
     ELSE x : x \in table}

\* main.py lines 74-89: the exception raised at line 75 leaves the try block
\* before the save of lines 77-84; nothing was added to the session and
\* nothing is committed
SaveSkipped(table, existing, t) == table

\* analyze_store raises e: the handler answers from its except branch
CompleteRaise(r, e) ==
    /\ req[r].pc = "scraping"
    /\ db' = SaveSkipped(db, req[r].existing, now)
    /\ req' = [req EXCEPT ![r] =
                 [IdleReq EXCEPT !.pc = "done", !.url = req[r].url,
                                 !.coord = req[r].coord, !.raised = TRUE,
                                 !.resp = HttpError(e)]]
    /\ UNCHANGED <<now, nextId, coordVars, hookVars, unitVars>>

RaiseNext ==
    \/ Tick
    \/ \E r \in Reqs, u \in Urls, l \in BOOLEAN : Begin(r, u, l)
    \/ \E r \in Reqs, site \in StoreSites, llm \in StoreLlms : Complete(r, site, llm)
    \/ \E r \in Reqs, e \in EscapingErrors : CompleteRaise(r, e)

RaiseSpec == Init /\ [][RaiseNext]_vars

-----------------------------------------------------------------------------
(* Properties of analyze_shopify_store and the table (Spec) *)

\* request r starts in this step (Begin)
Starts(r) == req[r].pc \in {"idle", "done"} /\ req'[r] /= req[r]

\* request r gets the result of analyze_store and finishes in this step (Complete)
Finishes(r) == req[r].pc = "scraping" /\ req'[r].pc = "done" /\ ~req'[r].raised

\* C1 (as claimed): a submit for an address whose row is recent
\* (now - updated_at < 24h) returns the stored payload as it was stored, calls
\* neither analyze_store nor the model, and leaves the table (so the row's
\* payload and updated_at) unchanged.
C1_FreshServedFromStore ==
    [][\A r \in Reqs : \A x \in db :
          (Starts(r) /\ req'[r].url = x.store_url /\ IsRecent(x, now)) =>
              /\ req'[r].pc = "done"
              /\ req'[r].resp = HttpOk(x.insights_data.json)
              /\ req'[r].coord = 0
              /\ req'[r].model = 0
              /\ db' = db]_vars

\* C2: a submit that found a stale row calls analyze_store exactly once and,
\* when it finishes, the row it found has the new payload and updated_at = now,
\* its id and store_url are unchanged, every other row is unchanged and no row
\* is added.
C2_StaleRefresh ==
    [][\A r \in Reqs :
          (Finishes(r) /\ req[r].existing /= <<>>) =>
              /\ req'[r].coord = 1
              /\ req'[r].resp.status = 200
              /\ \E x \in db : \E y \in db' :
                    /\ x.id = req[r].existing[1] /\ y.id = x.id
                    /\ y.store_url = x.store_url /\ y.store_url = req[r].url
                    /\ y.insights_data = Serialize(req'[r].resp.body[1])
                    /\ y.updated_at = now
                    /\ db' \ {y} = db \ {x}
              /\ Cardinality(db') = Cardinality(db)]_vars

\* a row inserted first and refreshed after the other address's row was inserted
C2_Witness ==
    \E r \in Reqs : \E x \in db : \E y \in db :
        /\ x.id = 1 /\ y.id = 2 /\ x.updated_at > y.updated_at
        /\ req[r].pc = "done" /\ req[r].coord = 1 /\ req[r].url = x.store_url
        /\ req[r].resp.status = 200
        /\ x.insights_data = Serialize(req[r].resp.body[1])
        /\ x.updated_at = now

C4_AtomicPerAddress ==
    /\ \A r \in Reqs : \A q \in Reqs :
          (r /= q /\ req[r].pc = "scraping" /\ req[q].pc = "scraping") =>
              req[r].url /= req[q].url
    /\ \A r \in Reqs : req[r].resp.detail /= "IntegrityError"

\* C6 (as claimed): analyze_store raises exactly when the root page cannot be
\* fetched, and the submit then answers 404 or 408.
C6_RootUnreachableFails ==
    \A r \in Reqs :
        (req[r].pc = "done" /\ req[r].coord = 1) =>
            IF RootUnits \subseteq req[r].site.failed
            THEN req[r].raised /\ req[r].resp.status \in {404, 408}
            ELSE ~req[r].raised

\* the texts of the exceptions that reach the handler's except branch
ExceptionTexts ==
    {ValidationError.kind, IntegrityError.kind} \cup {e.kind : e \in EscapingErrors}

\* C15 (as claimed): every failed submit is answered with exactly one of
\* NotFound (404), Timeout (408) and Internal (500), and the answer holds no
\* text of the exception that caused it.
C15_NoInternalDetail ==
    \A r \in Reqs :
        (req[r].pc = "done" /\ req[r].resp.status /= 200) =>
            /\ req[r].resp.status \in {404, 408, 500}
            /\ req[r].resp.body = <<>>
            /\ req[r].resp.detail \notin ExceptionTexts

\* request r finishes in this step because analyze_store raised
Raises(r) == req[r].pc = "scraping" /\ req'[r].pc = "done" /\ req'[r].raised

\* C18: when analyze_store raises during a submit, the table is left exactly
\* as it was (no row is added for an address without one, a stale row keeps
\* its payload and its updated_at), and the caller gets an error answer.
C18_RaiseLeavesStore ==
    [][\A r \in Reqs :
          Raises(r) =>
              /\ db' = db
              /\ nextId' = nextId
              /\ req'[r].resp.status \in {404, 408, 500}
              /\ req'[r].resp.body = <<>>]_vars

\* a refresh of a stale row that ended in a timeout: the row is still stale
C18_Witness ==
    \E r \in Reqs : \E x \in db :
        /\ req[r].pc = "done" /\ req[r].raised /\ req[r].coord = 1
        /\ req[r].resp.status = 408
        /\ x.store_url = req[r].url
        /\ ~IsRecent(x, now)
        /\ Cardinality(db) = 1

\* the record of a run in which all seven units fail
AllDefault(store_url) == NewInsights(store_url)

\* C19 (as claimed): a submit in which all 7 units fail is answered 200 with
\* the all-default record, the record is in the table with updated_at = now,
\* and every later submit for the address while that row is recent is
\* answered with the all-default record without a call of analyze_store.
C19_AllFailCached ==
    [][\A r \in Reqs :
          /\ (Finishes(r) /\ req'[r].site.failed = Units) =>
                /\ req'[r].resp = HttpOk(AllDefault(req[r].url))
                /\ \E y \in db' :
                      /\ y.store_url = req[r].url
                      /\ y.insights_data = Serialize(AllDefault(req[r].url))
                      /\ y.updated_at = now
          /\ \A x \in db :
                (/\ Starts(r) /\ req'[r].url = x.store_url /\ IsRecent(x, now)
                 /\ x.insights_data = Serialize(AllDefault(x.store_url))) =>
                    /\ req'[r].pc = "done"
                    /\ req'[r].resp = HttpOk(AllDefault(x.store_url))
                    /\ req'[r].coord = 0
                    /\ db' = db]_vars

-----------------------------------------------------------------------------
(* Properties of analyze_store (CoordSpec) *)

\* the fields enhance_insights may rewrite among those the units own
EnhancedFields == {"brand_context", "faqs"}

Enhancing == cLlm.used /\ cLlm.llm.enabled

\* the record merged when no unit fails
AllSucceed(variant) == Merge(TheUrl, [u \in Units |-> UnitValue(u, variant)])

\* C5: for every subset of the 7 units that fails, analyze_store returns a
\* record (it does not raise) in which every field owned by a failed unit has
\* its default value and every field owned by a unit that did not fail has the
\* value that unit produced (the value it has when no unit fails; for the
\* catalog, the unit's list cut to 500 and its full length).  Fields that
\* enhance_insights rewrites are compared when no enhancement runs.
C5_PartialFailure ==
    cOut.done =>
        /\ ~cOut.raised
        /\ \A u \in Units : \A f \in Owned(u) :
              IF u \in cSite.failed
              THEN cOut.rec[f] = NewInsights(TheUrl)[f]
              ELSE \/ Enhancing /\ f \in EnhancedFields
                   \/ cOut.rec[f] = AllSucceed(cSite.variant)[f]
        /\ "products" \notin cSite.failed =>
              /\ cOut.rec.total_products = UnitValue("products", cSite.variant).len
              /\ cOut.rec.product_catalog =
                    Min(UnitValue("products", cSite.variant).len, CatalogCap)

C5_Witness ==
    /\ cOut.done
    /\ cSite.failed = {"homepage", "policies", "faqs"}
    /\ cOut.rec.total_products = CatalogCap + 1
    /\ cOut.rec.store_name = None
    /\ cOut.rec.social_handles /= <<>>

\* the products unit did not fail and /products.json answered with a list
EndpointReachable ==
    /\ "products" \notin cSite.failed
    /\ ProductsAnswer(cSite.variant).status = 200

\* C11: in every record analyze_store returns, product_catalog has at most 500
\* entries and total_products is at least the length of product_catalog; when
\* /products.json was reachable, total_products is the number of products the
\* unit obtained from it, counted before the cut to 500.
C11_CatalogCap ==
    cOut.done =>
        /\ cOut.rec.product_catalog <= CatalogCap
        /\ cOut.rec.total_products >= cOut.rec.product_catalog
        /\ EndpointReachable =>
              cOut.rec.total_products = ProductsAnswer(cSite.variant).good

\* more than 500 products obtained: the catalog is cut, the count is not
C11_Witness ==
    /\ cOut.done
    /\ EndpointReachable
    /\ ProductsAnswer(cSite.variant).good > CatalogCap
    /\ cOut.rec.product_catalog = CatalogCap
    /\ cOut.rec.total_products = CatalogCap + 1

\* C12: for fixed outcomes of the seven units, the record analyze_store
\* returns is the same whatever the order in which the units finish: each
\* unit's result stays in its own position of the gathered list, no unit's
\* result lands in a field another unit owns, and the record is the one of
\* the run in which the units finish in the order of the task list.
C12_OrderIndependent ==
    /\ \A u, v \in Units : u /= v => Owned(u) \cap Owned(v) = {}
    /\ \A u \in Units :
          cResults[u] /= Pending => cResults[u] = UnitReturn(u, cSite)
    /\ cOut.done => cOut.rec = AnalyzeStore(TheUrl, cSite, cLlm).rec

\* the last task of the list finished first; the record is that of the run
\* in task order
C12_Witness ==
    /\ cOut.done
    /\ cFirst = "links"
    /\ cSite.failed = {"products"}
    /\ cOut.rec.important_links = UnitValue("links", cSite.variant).v
    /\ cOut.rec.social_handles = UnitValue("social", cSite.variant).v
    /\ cOut.rec.social_handles /= cOut.rec.important_links

-----------------------------------------------------------------------------
(* Properties of enhance_insights (HookSpec) *)

\* the model's answer to the FAQ prompt is not parseable, or is not a list of
\* question/answer objects
FaqMalformed(resp) == ~resp.raises /\ ~HasQuestionAnswer(resp.json)

\* a sub-step of the call on hIn fails: the model call raises, or its answer
\* cannot be used
BrandFails == Truthy(hIn.brand_context) /\ hLlm.brand.raises
FaqFails == hIn.faqs /= <<>> /\ (hLlm.faq.raises \/ FaqMalformed(hLlm.faq))
CatalogFails ==
    hIn.product_catalog > 0 /\ (hLlm.cat.raises \/ hLlm.cat.json.t /= "dict")
HookFails == hLlm.enabled /\ (BrandFails \/ FaqFails \/ CatalogFails)

\* the entries of a payment_methods / currencies_accepted value
Entries(j) == IF j.t = "list" THEN {j.v[i] : i \in 1..Len(j.v)} ELSE {}

\* C7 (as claimed): enhance_insights never raises, and when any of its
\* sub-steps fails the record it returns equals the record passed in.
C7_FailureReturnsInput ==
    hOut.done => /\ ~hOut.raised
                 /\ (HookFails => hOut.rec = hIn)

\* C8: when the hook is enabled and the model's answer to the FAQ prompt is
\* malformed, the returned faqs are the input faqs, the brand_context is the
\* model's rewrite, and payment_methods / currencies_accepted are the ones
\* derived from the model's catalog answer.
C8_MalformedFaqs ==
    (hOut.done /\ hLlm.enabled /\ hIn.faqs /= <<>> /\ FaqMalformed(hLlm.faq)) =>
        /\ hOut.rec.faqs = hIn.faqs
        /\ (Truthy(hIn.brand_context) /\ ~hLlm.brand.raises) =>
              hOut.rec.brand_context = Strip(hLlm.brand.content)
        /\ (hIn.product_catalog > 0 /\ ~hLlm.cat.raises /\ hLlm.cat.json.t = "dict") =>
              /\ hOut.rec.payment_methods =
                    DictGet(hLlm.cat.json.v, "payment_methods", JList(<<>>))
              /\ hOut.rec.currencies_accepted =
                    DictGet(hLlm.cat.json.v, "currencies", JList(<<>>))

C8_Witness ==
    /\ hOut.done /\ hLlm.enabled
    /\ hLlm.faq.json = JInvalid /\ ~hLlm.faq.raises
    /\ Len(hIn.faqs) = 1 /\ hOut.rec.faqs = hIn.faqs
    /\ hIn.brand_context = "ctx" /\ hOut.rec.brand_context = "better"
    /\ hOut.rec.payment_methods = JList(<<"visa">>)
    /\ hOut.rec.currencies_accepted = JList(<<"USD">>)

\* C9 (as claimed): a non-empty brand_context stays non-empty, a non-empty
\* faqs list stays non-empty, and the payment_methods / currencies_accepted
\* entries of the input are still in the output.
C9_NeverReduces ==
    hOut.done =>
        /\ Truthy(hIn.brand_context) => Truthy(hOut.rec.brand_context)
        /\ hIn.faqs /= <<>> => hOut.rec.faqs /= <<>>
        /\ Entries(hIn.payment_methods) \subseteq Entries(hOut.rec.payment_methods)
        /\ Entries(hIn.currencies_accepted) \subseteq Entries(hOut.rec.currencies_accepted)

\* C10: with no credential configured (enabled is false) enhance_insights
\* returns its input unchanged in every field and calls the model zero times.
C10_DisabledIsIdentity ==
    (hOut.done /\ ~hLlm.enabled) => (hOut.rec = hIn /\ hOut.calls = 0)

C10_Witness ==
    /\ hOut.done /\ ~hLlm.enabled
    /\ hIn.brand_context = "ctx" /\ hIn.faqs /= <<>> /\ hIn.product_catalog > 0
    /\ ~hLlm.brand.raises /\ hLlm.brand.content = "better"
    /\ hOut.rec = hIn

-----------------------------------------------------------------------------
(* Properties of _scrape_social_handles (SocialSpec) *)

\* the positions of the links of the page that match the platform
MatchingLinks(platform) ==
    {i \in 1..Len(fIn) : MatchesPlatform(fIn[i], platform)}

\* C13: the list _scrape_social_handles returns has at most one entry per
\* platform, and the entry of a platform is built from the first link of the
\* page, in DOM order, whose href holds one of that platform's domains; a
\* platform no link matches has no entry.
C13_FirstPerPlatform ==
    fOut.done =>
        /\ \A i, j \in 1..Len(fOut.v) :
              fOut.v[i].platform = fOut.v[j].platform => i = j
        /\ \A k \in 1..Len(Platforms) :
              LET p == Platforms[k]
                  kept == {i \in 1..Len(fOut.v) : fOut.v[i].platform = p}
              IN  IF MatchingLinks(p) = {}
                  THEN kept = {}
                  ELSE \E i \in kept :
                          LET first == CHOOSE x \in MatchingLinks(p) :
                                          \A y \in MatchingLinks(p) : x <= y
                          IN  fOut.v[i] = SocialHandle(p, fIn[first])

\* two links of different href match instagram, the first through the second
\* domain of the platform; the entry kept is the first link's
C13_Witness ==
    /\ fOut.done
    /\ Len(fIn) = 3
    /\ fIn[1] = <<"/", "pages", "/", "about">>
    /\ fIn[2] = <<"https://", "instagr.am", "/", "shop">>
    /\ fIn[3] = <<"https://", "instagram", ".com", "/", "shop">>
    /\ fOut.v = <<[platform |-> "instagram", url |-> fIn[2], handle |-> ""]>>

-----------------------------------------------------------------------------
(* Properties of _scrape_important_links (LinksSpec) *)

\* C14: the list _scrape_important_links returns has no two entries with the
\* same resolved absolute url, has at most 15 entries, and each entry is the
\* one built from the first link of the page, in DOM order, that is kept and
\* resolves to that url.
C14_UniqueLinksCapped ==
    fOut.done =>
        /\ \A i, j \in 1..Len(fOut.v) : fOut.v[i].url = fOut.v[j].url => i = j
        /\ Len(fOut.v) <= LinkCap
        /\ \A k \in 1..Len(fOut.v) :
              \E i \in 1..Len(fIn) :
                 /\ Important(fIn[i])
                 /\ fOut.v[k] = ImportantLink(fIn[i])
                 /\ \A j \in 1..(i - 1) :
                       Important(fIn[j]) =>
                          UrlJoin(LinkBase, fIn[j].href) /= fOut.v[k].url

\* a relative and an absolute href of the same page, then more distinct links
\* than the cap: the first href's entry is kept, 15 entries are returned
C14_Witness ==
    /\ fOut.done
    /\ Len(fIn) = 2 + LinkCap + 1
    /\ fIn[1].href = <<"/", "blog">>
    /\ fIn[2].href = <<"https://", "a.shop", "/", "blog">>
    /\ Len(fOut.v) = LinkCap
    /\ fOut.v[1].name = <<"Our", " ", "Blog">>
    /\ \A k \in 2..Len(fOut.v) : fOut.v[k].url /= fOut.v[1].url

-----------------------------------------------------------------------------
(* Properties of _scrape_policies (PolicySpec) *)

\* the positions, in the candidate list of the type, of the candidates that
\* answer 200 with a text of at least min characters
Qualifying(policy_type, min) ==
    {k \in 1..Len(PolicyUrls(policy_type)) :
        LET response == fIn[PolicyUrls(policy_type)[k]]
        IN  ~response.raises /\ response.status = 200 /\ response.len >= min}

\* the entry of the type is the text of the first candidate with at least
\* min characters, cut to 2000; there is no entry when no candidate has one
FirstQualifyingTaken(policy_type, min) ==
    LET q == Qualifying(policy_type, min)
    IN  IF q = {}
        THEN policy_type \notin DOMAIN fOut.v
        ELSE LET k == CHOOSE x \in q : \A y \in q : x <= y
                 url_path == PolicyUrls(policy_type)[k]
             IN  /\ policy_type \in DOMAIN fOut.v
                 /\ fOut.v[policy_type].from = url_path
                 /\ fOut.v[policy_type].len = Min(fIn[url_path].len, PolicyCap)
                 /\ fOut.v[policy_type].len <= PolicyCap

\* C16 as claimed: for each policy type the candidates are tried in order and
\* the text of the first one with at least 100 characters (exactly 100
\* included) is taken, cut to 2000 characters, later candidates ignored; the
\* field stays empty when no candidate qualifies.
C16_AtLeast100 ==
    fOut.done =>
        \A t \in 1..Len(PolicyTypes) :
            FirstQualifyingTaken(PolicyTypes[t], PolicyMinChars)

\* C16 as the code has it: a text qualifies when it has more than 100
\* characters (at least 101); a text of exactly 100 characters is passed over
\* and the next candidate is tried.
C16_MoreThan100 ==
    fOut.done =>
        \A t \in 1..Len(PolicyTypes) :
            FirstQualifyingTaken(PolicyTypes[t], PolicyMinChars + 1)

\* the first privacy candidate has exactly 100 characters and is passed over;
\* the second has 2001 and is taken, cut to 2000; the third is ignored
C16_Witness ==
    /\ fOut.done
    /\ fIn["/pages/privacy-policy"] =
          [raises |-> FALSE, status |-> 200, len |-> PolicyMinChars]
    /\ fIn["/policies/privacy-policy"].len = PolicyCap + 1
    /\ Substantial(fIn["/privacy"])
    /\ fOut.v["privacy_policy"] =
          [from |-> "/policies/privacy-policy", len |-> PolicyCap]
    /\ "return_refund_policy" \notin DOMAIN fOut.v

-----------------------------------------------------------------------------
(* The FAQ rewrite of enhance_insights (HookSpec) *)

\* C17 (as claimed): with the service enabled and the model answering the FAQ
\* prompt with a well-formed JSON array of question/answer objects, the faqs
\* of the record returned are the rewritten pairs of the answer, not the ones
\* passed in.
C17_FaqsRewritten ==
    (/\ hOut.done /\ hLlm.enabled /\ hIn.faqs /= <<>>
     /\ ~hLlm.faq.raises /\ HasQuestionAnswer(hLlm.faq.json)) =>
        /\ Len(hOut.rec.faqs) = Len(hLlm.faq.json.v)
        /\ \A i \in 1..Len(hOut.rec.faqs) :
              /\ hOut.rec.faqs[i].question = hLlm.faq.json.v[i].question
              /\ hOut.rec.faqs[i].answer = hLlm.faq.json.v[i].answer

====
